---- MODULE Spec2Model ----
(***************************************************************************)
(* Token refresh and persistence core of the FreshBooks client             *)
(* (src/agent_workspaces/accountant/freshbooks/freshbooks.py).             *)
(*                                                                         *)
(* One or two client processes share one persisted store (the .env file)   *)
(* and its backup (.env.backup).  Each process runs _make_request, which   *)
(* calls is_token_expired, refresh_access_token and atomic_save_tokens.    *)
(* The authorization server and the API server are the environment.        *)
(***************************************************************************)
EXTENDS Integers, Sequences, FiniteSets, TLC

VARIABLES
    procs,      \* the client processes that exist in this run
    now,        \* datetime.now().timestamp(), in seconds
    store,      \* the .env file: Absent or its three token keys
    backup,     \* the .env.backup file: Absent or a copy of the store
    penv,       \* the token variables of the process environment (outside .env)
    srvValid,   \* the refresh token the authorization server accepts
    issued,     \* number of token pairs the authorization server has issued
    subm,       \* subm[t]: the living client processes that have submitted refresh token t
    pc,         \* pc[p]: position of process p
    mem,        \* mem[p]: access_token, refresh_token, token_expires_at, headers
    loc,        \* loc[p]: locals of refresh_access_token / atomic_save_tokens
    ex,         \* ex[p]: record of the current (or last) _make_request call
    lastRef,    \* lastRef[p]: access token of the last refresh, if it succeeded
    expiredResult  \* last value returned by is_token_expired

vars == <<procs, now, store, backup, penv, srvValid, issued, subm, pc, mem, loc,
          ex, lastRef, expiredResult>>

----------------------------------------------------------------------------
(* Bounds of the model *)

\* The authorization server issues at most MaxIssue new token pairs.
MaxIssue == 2

\* The clock runs from 0 to MaxNow * TimeStep seconds.
MaxNow == 3

\* is_token_expired alone is called at the times 0..MaxClock.
MaxClock == 10

----------------------------------------------------------------------------
(* Program constants *)

\* is_token_expired: the 5 minute safety margin.
Margin == 300

\* atomic_save_tokens / refresh_access_token: default token lifetime.
DefaultExpiresIn == 43200

\* None for a token: os.getenv of a variable that is not set.
NoTok == 0

----------------------------------------------------------------------------
(* Values *)

AllProcs == {1, 2}

Tokens == 1..(MaxIssue + 1)

\* The first credential, produced by the initial authorization.
FirstTok == 1

Absent == [exists |-> FALSE]

\* token_expires_at is a string or None; a string is empty, not a number, or
\* the decimal form of a float.
NoneExp  == [kind |-> "none",  val |-> 0]
EmptyExp == [kind |-> "empty", val |-> 0]
BadExp   == [kind |-> "bad",   val |-> 0]

\* str(expires_at)
Str(x) == [kind |-> "num", val |-> x]

\* float(s): succeeds only on the decimal form of a number
FloatOK(s) == s.kind = "num"
Float(s) == s.val

\* The clock advances in steps that hit the margin exactly.
TimeStep == Margin \div 2
Times == {i * TimeStep : i \in 0..MaxNow}

\* expires_in values the authorization server answers with (NoTok: key absent)
ExpiresIns == {NoTok, 2 * Margin}

File(at, rt, exp) == [exists |-> TRUE, at |-> at, rt |-> rt, exp |-> exp]

\* A dict of query parameters is its set of <<key, value>> items; an
\* assignment d[k] = v replaces the item of key k.
EmptyDict == {}

DictSet(d, k, v) == {e \in d : e[1] # k} \cup {<<k, v>>}

\* The values a dict sends under key k.
DictValues(d, k) == {e[2] : e \in {x \in d : x[1] = k}}

\* An API call: the arguments of _make_request (method, endpoint, body, query).
Request(method, endpoint, data, params) ==
    [method |-> method, endpoint |-> endpoint, data |-> data, params |-> params]

\* get_invoice (lines 265-278).
GetInvoiceRequest == Request("GET", "/invoices/invoices/1", "none", DictSet(EmptyDict, "include[]", "lines"))

\* The request of send_invoice (lines 359-367).
SendInvoiceRequest == Request("PUT", "/invoices/invoices/1", "action_email", EmptyDict)

\* The API calls a caller makes through the methods that have no gate.
Requests == { GetInvoiceRequest }

NoReq == Request("none", "none", "none", EmptyDict)

\* The status argument of get_invoices: None, or a list of statuses.
NoneStatus == [given |-> FALSE, list |-> <<>>]

StatusList(l) == [given |-> TRUE, list |-> l]

\* Invoice statuses and the status arguments get_invoices is called with:
\* None and every list of at most MaxStatuses statuses.
Statuses == {"draft", "sent", "paid"}

MaxStatuses == 2

StatusArgs ==
    {NoneStatus} \cup {StatusList(l) : l \in UNION {[1..k -> Statuses] : k \in 0..MaxStatuses}}

\* Status codes the API server answers with.
ApiStatuses == {200, 401, 404, 500}

----------------------------------------------------------------------------
(* Pure functions *)

\* Mutant of is_token_expired: the safety margin is forgotten.
is_token_expired_NoMargin(exp, t) ==
    IF exp.kind \in {"none", "empty"} THEN TRUE
    ELSE IF ~FloatOK(exp) THEN TRUE
    ELSE t > Float(exp)

\* is_token_expired (lines 114-124), on token_expires_at and the current time.
is_token_expired(exp, t) ==
    IF exp.kind \in {"none", "empty"} THEN TRUE      \* not self.token_expires_at
    ELSE IF ~FloatOK(exp) THEN TRUE                  \* float() raises ValueError
    ELSE t > Float(exp) - Margin

\* dotenv set_key: rewrites the file with one key replaced; creates the file
\* when it does not exist.
set_key(f, key, value) ==
    LET g == IF f.exists THEN f ELSE File(NoTok, NoTok, NoneExp)
    IN  [g EXCEPT ![key] = value]

\* load_dotenv(override=True) followed by os.getenv: a key of the .env file
\* overrides the process environment.
getenv(key) ==
    LET unset == IF key = "exp" THEN NoneExp ELSE NoTok
    IN  IF store.exists /\ store[key] # unset THEN store[key] ELSE penv[key]

\* The in-memory credential built by __init__ (lines 33-60).
LoadedMem ==
    [at |-> getenv("at"), rt |-> getenv("rt"), exp |-> getenv("exp"), hdr |-> getenv("at")]

\* Mutant of RefreshOutcome: the invalid_grant test of line 155 is left out.
RefreshOutcome_NoGrantCheck(r) ==
    LET fail(e) == [err |-> e, at |-> NoTok, rt |-> NoTok, ein |-> 0]
        parse   == IF ~r.json THEN fail("JSONDecodeError")
                   ELSE IF r.at = NoTok \/ r.rt = NoTok THEN fail("MalformedTokenResponse")
                   ELSE [err |-> "none", at |-> r.at, rt |-> r.rt,
                         ein |-> IF r.ein = NoTok THEN DefaultExpiresIn ELSE r.ein]
    IN  IF r.status # 200
        THEN IF ~r.json THEN fail("JSONDecodeError")
             ELSE IF r.status >= 400 THEN fail("HTTPError")
             ELSE parse
        ELSE parse

\* Mutant of RefreshOutcome: line 175 tests the access token only.
RefreshOutcome_AccessOnly(r) ==
    LET fail(e) == [err |-> e, at |-> NoTok, rt |-> NoTok, ein |-> 0]
        parse   == IF ~r.json THEN fail("JSONDecodeError")
                   ELSE IF r.at = NoTok THEN fail("MalformedTokenResponse")
                   ELSE [err |-> "none", at |-> r.at, rt |-> r.rt,
                         ein |-> IF r.ein = NoTok THEN DefaultExpiresIn ELSE r.ein]
    IN  IF r.status # 200
        THEN IF ~r.json THEN fail("JSONDecodeError")
             ELSE IF r.error = "invalid_grant" THEN fail("RefreshTokenInvalid")
             ELSE IF r.status >= 400 THEN fail("HTTPError")
             ELSE parse
        ELSE parse

\* What refresh_access_token makes of the authorization server's response
\* (lines 153-176): the error it raises, or "none" and the values handed to
\* atomic_save_tokens.
RefreshOutcome(r) ==
    LET fail(e) == [err |-> e, at |-> NoTok, rt |-> NoTok, ein |-> 0]
        parse   == IF ~r.json THEN fail("JSONDecodeError")
                   ELSE IF r.at = NoTok \/ r.rt = NoTok THEN fail("MalformedTokenResponse")
                   ELSE [err |-> "none", at |-> r.at, rt |-> r.rt,
                         ein |-> IF r.ein = NoTok THEN DefaultExpiresIn ELSE r.ein]
    IN  IF r.status # 200
        THEN IF ~r.json THEN fail("JSONDecodeError")
             ELSE IF r.error = "invalid_grant" THEN fail("RefreshTokenInvalid")
             ELSE IF r.status >= 400 THEN fail("HTTPError")    \* raise_for_status
             ELSE parse
        ELSE parse

\* The responses of the authorization server to a submitted refresh token.
\* A refresh token is single-use: the server accepts only srvValid.
Resp(status, json, error, at, rt, ein) ==
    [status |-> status, json |-> json, error |-> error, at |-> at, rt |-> rt, ein |-> ein]

ServerResponses(rt) ==
    LET n == issued + 1
        errors == { Resp(500, TRUE, "server_error", NoTok, NoTok, NoTok),
                    Resp(502, FALSE, "none", NoTok, NoTok, NoTok) }
    IN  IF rt = srvValid /\ issued <= MaxIssue
        THEN { Resp(200, TRUE, "none", n, n, e) : e \in ExpiresIns }
             \cup { Resp(200, TRUE, "none", n, NoTok, NoTok),
                    Resp(200, TRUE, "none", NoTok, n, NoTok),
                    Resp(200, TRUE, "none", NoTok, NoTok, NoTok),
                    Resp(201, TRUE, "none", n, n, NoTok) }
             \cup errors
        ELSE { Resp(400, TRUE, "invalid_grant", NoTok, NoTok, NoTok) } \cup errors

\* No response received yet.
NoResp == Resp(0, FALSE, "none", NoTok, NoTok, NoTok)

\* The memory of a process that holds no client.
NoMem == [at |-> NoTok, rt |-> NoTok, exp |-> NoneExp, hdr |-> NoTok]

NoLoc == [phase |-> "none", new_at |-> NoTok, new_rt |-> NoTok, ein |-> 0,
          expires_at |-> 0, pre |-> Absent, saved |-> "no", failedAt |-> "none",
          resp |-> NoResp]

NoEx == [req |-> NoReq, expired |-> FALSE, hdr0 |-> NoTok, nPre |-> 0, nPost |-> 0,
         calls |-> <<>>, outcome |-> "none", err |-> "none", preErr |-> "none",
         op |-> "none", approved |-> FALSE, arg |-> NoneStatus]

----------------------------------------------------------------------------
(* Initial states *)

InitExps == {NoneExp, BadExp, Str(Margin)}

\* The first credential is either in the .env file or in the process
\* environment (no .env file yet); the refresh token may not be set.
InitCommon(P) ==
    /\ procs = P
    /\ now = 0
    /\ backup = Absent
    /\ srvValid = FirstTok
    /\ issued = 1
    /\ subm = [t \in Tokens \cup {NoTok} |-> {}]
    /\ \E e \in InitExps, r \in {FirstTok, NoTok}, inFile \in BOOLEAN :
          /\ store = IF inFile THEN File(FirstTok, r, e) ELSE Absent
          /\ penv = IF inFile THEN [at |-> NoTok, rt |-> NoTok, exp |-> NoneExp]
                              ELSE [at |-> FirstTok, rt |-> r, exp |-> e]
          /\ mem = [p \in AllProcs |-> [at |-> FirstTok, rt |-> r, exp |-> e, hdr |-> FirstTok]]
    /\ pc = [p \in AllProcs |-> IF p \in P THEN "idle" ELSE "off"]
    /\ loc = [p \in AllProcs |-> NoLoc]
    /\ ex = [p \in AllProcs |-> NoEx]
    /\ lastRef = [p \in AllProcs |-> NoTok]
    /\ expiredResult = FALSE

Init == InitCommon({1})

----------------------------------------------------------------------------
(* _make_request (lines 183-242) *)

\* Mutant of BeginRequest: the expiry check never starts a refresh.
BeginRequest_NoRefresh(p, r) ==
    /\ pc[p] = "idle"
    /\ LET expired == is_token_expired(mem[p].exp, now)
       IN  /\ expiredResult' = expired
           /\ ex' = [ex EXCEPT ![p] = [NoEx EXCEPT !.req = r, !.expired = expired,
                                                  !.hdr0 = mem[p].hdr, !.outcome = "running"]]
           /\ loc' = [loc EXCEPT ![p] = NoLoc]
           /\ pc' = [pc EXCEPT ![p] = "call"]
    /\ UNCHANGED <<procs, now, store, backup, penv, srvValid, issued, subm, mem, lastRef>>

\* Lines 199-209: the expiry check of a client whose instance fields are m;
\* an expired token starts the proactive refresh.  e0 carries what the
\* calling method has recorded of its own arguments.
StartRequest(p, r, e0, m) ==
    LET expired == is_token_expired(m.exp, now)
    IN  /\ expiredResult' = expired
        /\ ex' = [ex EXCEPT ![p] = [e0 EXCEPT !.req = r, !.expired = expired,
                                             !.hdr0 = m.hdr, !.outcome = "running"]]
        /\ loc' = [loc EXCEPT ![p] = [NoLoc EXCEPT !.phase = IF expired THEN "pro" ELSE "none"]]
        /\ pc' = [pc EXCEPT ![p] = IF expired THEN "refresh" ELSE "call"]

\* _make_request called by a method without a gate (get_invoice, ...).
BeginRequest(p, r) ==
    /\ pc[p] = "idle"
    /\ StartRequest(p, r, NoEx, mem[p])
    /\ UNCHANGED <<procs, now, store, backup, penv, srvValid, issued, subm, mem, lastRef>>

\* Lines 259-261 of get_invoices: the loop over the statuses.
RECURSIVE StatusParams(_, _)
StatusParams(status, params) ==
    IF status = <<>> THEN params
    ELSE StatusParams(Tail(status), DictSet(params, "status[]", Head(status)))

\* FreshBooksClient.get_invoices (lines 244-263).
get_invoices(p, status) ==
    /\ pc[p] = "idle"
    /\ LET params == IF status.given /\ status.list # <<>>
                     THEN StatusParams(status.list, EmptyDict)
                     ELSE EmptyDict
       IN  StartRequest(p, Request("GET", "/invoices_current", "none", params),
                        [NoEx EXCEPT !.op = "get_invoices", !.arg = status], mem[p])
    /\ UNCHANGED <<procs, now, store, backup, penv, srvValid, issued, subm, mem, lastRef>>

\* What a send_invoice call records of itself.
SendEx(approved) == [NoEx EXCEPT !.op = "send_invoice", !.approved = approved]

\* The ValueError of lines 352-357.
Refused(p) ==
    /\ ex' = [ex EXCEPT ![p] = [SendEx(FALSE) EXCEPT !.outcome = "value_error"]]
    /\ loc' = [loc EXCEPT ![p] = NoLoc]
    /\ pc' = [pc EXCEPT ![p] = "idle"]
    /\ UNCHANGED expiredResult

\* Mutant of send_invoice: the approval is not checked.
send_invoice_NoGate(p, approved) ==
    /\ pc[p] = "idle"
    /\ StartRequest(p, SendInvoiceRequest, SendEx(approved), mem[p])
    /\ UNCHANGED <<procs, now, store, backup, penv, srvValid, issued, subm, mem, lastRef>>

\* FreshBooksClient.send_invoice (lines 335-367): the approval gate, then the
\* PUT with action_email.
send_invoice(p, approved) ==
    /\ pc[p] = "idle"
    /\ IF ~approved
       THEN Refused(p)
       ELSE StartRequest(p, SendInvoiceRequest, SendEx(approved), mem[p])
    /\ UNCHANGED <<procs, now, store, backup, penv, srvValid, issued, subm, mem, lastRef>>

\* The module's send_invoice function (lines 588-605): a process without a
\* client constructs one from the environment (__init__ raises when there is
\* no access token) and calls its send_invoice.
send_invoice_function(p, approved) ==
    /\ pc[p] = "dead"
    /\ getenv("at") # NoTok
    /\ mem' = [mem EXCEPT ![p] = LoadedMem]
    /\ lastRef' = [lastRef EXCEPT ![p] = NoTok]
    /\ IF ~approved
       THEN Refused(p)
       ELSE StartRequest(p, SendInvoiceRequest, SendEx(approved), LoadedMem)
    /\ UNCHANGED <<procs, now, store, backup, penv, srvValid, issued, subm>>

\* Mutant of RaisedPc: the 401-triggered refresh swallows the exception too
\* and goes on to the retry.
RaisedPc_Swallow(p) == IF loc[p].phase = "pro" THEN "call" ELSE "retry"

\* Where an exception raised inside refresh_access_token goes: the proactive
\* refresh swallows it (lines 206-208), the 401-triggered one re-raises it
\* (lines 234-239).
RaisedPc(p) == IF loc[p].phase = "pro" THEN "call" ELSE "idle"

RaisedEx(p, e) ==
    IF loc[p].phase = "pro" THEN [ex[p] EXCEPT !.preErr = e]
    ELSE [ex[p] EXCEPT !.outcome = "refresh_error", !.err = e]

\* Mutant of FinalOutcome: the final response is returned whatever its status.
FinalOutcome_NoRaise(status) == "ok"

\* The result of _make_request for a final response (lines 241-242):
\* raise_for_status raises on 4xx and 5xx.
FinalOutcome(status) == IF status >= 400 THEN "http_error" ELSE "ok"

\* Lines 211-220: the API call with the current headers; a 401 starts the
\* reactive refresh.
SendRequest(p) ==
    /\ pc[p] = "call"
    /\ \E s \in ApiStatuses :
          /\ ex' = [ex EXCEPT ![p].calls = Append(@, [req |-> ex[p].req, hdr |-> mem[p].hdr, ref |-> lastRef[p], status |-> s]),
                              ![p].outcome = IF s = 401 THEN @ ELSE FinalOutcome(s)]
          /\ pc' = [pc EXCEPT ![p] = IF s = 401 THEN "refresh" ELSE "idle"]
          /\ loc' = [loc EXCEPT ![p].phase = IF s = 401 THEN "re" ELSE @]
    /\ UNCHANGED <<procs, now, store, backup, penv, srvValid, issued, subm, mem, lastRef, expiredResult>>

\* Mutant of RetryRequest: the retry sends the headers of the first call.
RetryRequest_StaleHeader(p) ==
    /\ pc[p] = "retry"
    /\ \E s \in ApiStatuses :
          /\ ex' = [ex EXCEPT ![p].calls = Append(@, [req |-> ex[p].req, hdr |-> ex[p].calls[1].hdr,
                                                     ref |-> lastRef[p], status |-> s]),
                              ![p].outcome = FinalOutcome(s)]
          /\ pc' = [pc EXCEPT ![p] = "idle"]
    /\ UNCHANGED <<procs, now, store, backup, penv, srvValid, issued, subm, mem, loc, lastRef, expiredResult>>

\* Mutant of RetryRequest: a 401 answered to the retry starts another refresh.
RetryRequest_Again(p) ==
    /\ pc[p] = "retry"
    /\ \E s \in ApiStatuses :
          /\ ex' = [ex EXCEPT ![p].calls = Append(@, [req |-> ex[p].req, hdr |-> mem[p].hdr, ref |-> lastRef[p], status |-> s]),
                              ![p].outcome = IF s = 401 THEN @ ELSE FinalOutcome(s)]
          /\ pc' = [pc EXCEPT ![p] = IF s = 401 THEN "refresh" ELSE "idle"]
    /\ UNCHANGED <<procs, now, store, backup, penv, srvValid, issued, subm, mem, loc, lastRef, expiredResult>>

\* Lines 225-232 and 241-242: the retry after a successful reactive refresh.
RetryRequest(p) ==
    /\ pc[p] = "retry"
    /\ \E s \in ApiStatuses :
          /\ ex' = [ex EXCEPT ![p].calls = Append(@, [req |-> ex[p].req, hdr |-> mem[p].hdr, ref |-> lastRef[p], status |-> s]),
                              ![p].outcome = FinalOutcome(s)]
          /\ pc' = [pc EXCEPT ![p] = "idle"]
    /\ UNCHANGED <<procs, now, store, backup, penv, srvValid, issued, subm, mem, loc, lastRef, expiredResult>>

----------------------------------------------------------------------------
(* refresh_access_token (lines 126-181) *)

\* Mutant of RefreshStart: the refresh token is not checked before the POST.
RefreshStart_NoCheck(p) ==
    /\ pc[p] = "refresh"
    /\ lastRef' = [lastRef EXCEPT ![p] = NoTok]
    /\ pc' = [pc EXCEPT ![p] = "post"]
    /\ ex' = [ex EXCEPT ![p] = IF loc[p].phase = "pro" THEN [ex[p] EXCEPT !.nPre = @ + 1]
                                                       ELSE [ex[p] EXCEPT !.nPost = @ + 1]]
    /\ UNCHANGED <<procs, now, store, backup, penv, srvValid, issued, subm, mem, loc, expiredResult>>

\* Lines 136-140: no refresh token held.
RefreshStart(p) ==
    /\ pc[p] = "refresh"
    /\ lastRef' = [lastRef EXCEPT ![p] = NoTok]
    /\ LET counted == IF loc[p].phase = "pro" THEN [ex[p] EXCEPT !.nPre = @ + 1]
                                              ELSE [ex[p] EXCEPT !.nPost = @ + 1]
       IN  IF mem[p].rt = NoTok
           THEN /\ pc' = [pc EXCEPT ![p] = RaisedPc(p)]
                /\ ex' = [ex EXCEPT ![p] =
                            IF loc[p].phase = "pro" THEN [counted EXCEPT !.preErr = "NoRefreshToken"]
                            ELSE [counted EXCEPT !.outcome = "refresh_error", !.err = "NoRefreshToken"]]
           ELSE /\ pc' = [pc EXCEPT ![p] = "post"]
                /\ ex' = [ex EXCEPT ![p] = counted]
    /\ UNCHANGED <<procs, now, store, backup, penv, srvValid, issued, subm, mem, loc, expiredResult>>

\* Mutant of RefreshPost: a refresh that fails forgets the refresh token it
\* has submitted.
RefreshPost_ForgetsToken(p) ==
    /\ pc[p] = "post"
    /\ subm' = [subm EXCEPT ![mem[p].rt] = @ \cup {p}]
    /\ \E r \in ServerResponses(mem[p].rt) :
          LET o == RefreshOutcome(r)
          IN  /\ IF r.at # NoTok \/ r.rt # NoTok
                 THEN issued' = issued + 1 /\ srvValid' = issued + 1
                 ELSE UNCHANGED <<issued, srvValid>>
              /\ IF o.err = "none"
                 THEN /\ loc' = [loc EXCEPT ![p].new_at = o.at, ![p].new_rt = o.rt, ![p].ein = o.ein,
                                            ![p].resp = r]
                      /\ pc' = [pc EXCEPT ![p] = "save"]
                      /\ UNCHANGED <<ex, mem>>
                 ELSE /\ pc' = [pc EXCEPT ![p] = RaisedPc(p)]
                      /\ ex' = [ex EXCEPT ![p] = RaisedEx(p, o.err)]
                      /\ loc' = [loc EXCEPT ![p].resp = r]
                      /\ mem' = [mem EXCEPT ![p].rt = NoTok]
    /\ UNCHANGED <<procs, now, store, backup, penv, lastRef, expiredResult>>

\* Lines 144-176: the refresh token is submitted; the server consumes it when
\* it answers with a new pair.
RefreshPost(p) ==
    /\ pc[p] = "post"
    /\ subm' = [subm EXCEPT ![mem[p].rt] = @ \cup {p}]
    /\ \E r \in ServerResponses(mem[p].rt) :
          LET o == RefreshOutcome(r)
          IN  /\ IF r.at # NoTok \/ r.rt # NoTok
                 THEN issued' = issued + 1 /\ srvValid' = issued + 1
                 ELSE UNCHANGED <<issued, srvValid>>
              /\ IF o.err = "none"
                 THEN /\ loc' = [loc EXCEPT ![p].new_at = o.at, ![p].new_rt = o.rt, ![p].ein = o.ein,
                                            ![p].resp = r]
                      /\ pc' = [pc EXCEPT ![p] = "save"]
                      /\ UNCHANGED ex
                 ELSE /\ pc' = [pc EXCEPT ![p] = RaisedPc(p)]
                      /\ ex' = [ex EXCEPT ![p] = RaisedEx(p, o.err)]
                      /\ loc' = [loc EXCEPT ![p].resp = r]
    /\ UNCHANGED <<procs, now, store, backup, penv, mem, lastRef, expiredResult>>

----------------------------------------------------------------------------
(* atomic_save_tokens (lines 62-112) *)

\* Lines 75-83: the expiry is computed and the current .env is copied to the
\* backup, when there is a .env.
SaveBackup(p) ==
    /\ pc[p] = "save"
    /\ loc' = [loc EXCEPT ![p].expires_at = now + loc[p].ein, ![p].pre = store,
                          ![p].saved = "running", ![p].failedAt = "none"]
    /\ backup' = IF store.exists THEN store ELSE backup
    /\ pc' = [pc EXCEPT ![p] = "w1"]
    /\ UNCHANGED <<procs, now, store, penv, srvValid, issued, subm, mem, ex, lastRef, expiredResult>>

\* One set_key of lines 87-89: it writes the key, or raises and control goes
\* to the except clause.
WriteKey(p, at, key, value, next) ==
    /\ pc[p] = at
    /\ \E fail \in BOOLEAN :
          IF fail
          THEN /\ pc' = [pc EXCEPT ![p] = "restore"]
               /\ loc' = [loc EXCEPT ![p].failedAt = at]
               /\ UNCHANGED store
          ELSE /\ store' = set_key(store, key, value)
               /\ pc' = [pc EXCEPT ![p] = next]
               /\ UNCHANGED loc
    /\ UNCHANGED <<procs, now, backup, penv, srvValid, issued, subm, mem, ex, lastRef, expiredResult>>

\* Line 87
SetAccessToken(p) == WriteKey(p, "w1", "at", loc[p].new_at, "w2")

\* Mutant of SetRefreshToken: the refresh token just submitted is written
\* back, the new one is lost.
SetRefreshToken_Old(p) == WriteKey(p, "w2", "rt", mem[p].rt, "w3")

\* Line 88
SetRefreshToken(p) == WriteKey(p, "w2", "rt", loc[p].new_rt, "w3")

\* Line 89
SetExpiresAt(p) == WriteKey(p, "w3", "exp", Str(loc[p].expires_at), "mem")

\* Mutant of UpdateInstance: the Authorization header is not updated.
UpdateInstance_NoHeader(p) ==
    /\ pc[p] = "mem"
    /\ mem' = [mem EXCEPT ![p] = [at |-> loc[p].new_at, rt |-> loc[p].new_rt,
                                  exp |-> Str(loc[p].expires_at), hdr |-> mem[p].hdr]]
    /\ pc' = [pc EXCEPT ![p] = "rm"]
    /\ UNCHANGED <<procs, now, store, backup, penv, srvValid, issued, subm, loc, ex, lastRef, expiredResult>>

\* Lines 91-95: the instance variables and the Authorization header.
UpdateInstance(p) ==
    /\ pc[p] = "mem"
    /\ mem' = [mem EXCEPT ![p] = [at |-> loc[p].new_at, rt |-> loc[p].new_rt,
                                  exp |-> Str(loc[p].expires_at), hdr |-> loc[p].new_at]]
    /\ pc' = [pc EXCEPT ![p] = "rm"]
    /\ UNCHANGED <<procs, now, store, backup, penv, srvValid, issued, subm, loc, ex, lastRef, expiredResult>>

\* Mutant of RemoveBackup: the backup is left in place.
RemoveBackup_Keep(p) ==
    /\ pc[p] = "rm"
    /\ pc' = [pc EXCEPT ![p] = "print"]
    /\ UNCHANGED <<procs, now, store, backup, penv, srvValid, issued, subm, mem, loc, ex, lastRef, expiredResult>>

\* Lines 97-99: the backup is removed when it exists; os.remove may raise.
RemoveBackup(p) ==
    /\ pc[p] = "rm"
    /\ \E fail \in BOOLEAN :
          IF backup.exists /\ fail
          THEN /\ pc' = [pc EXCEPT ![p] = "restore"]
               /\ loc' = [loc EXCEPT ![p].failedAt = "rm"]
               /\ UNCHANGED backup
          ELSE /\ backup' = Absent
               /\ pc' = [pc EXCEPT ![p] = "print"]
               /\ UNCHANGED loc
    /\ UNCHANGED <<procs, now, store, penv, srvValid, issued, subm, mem, ex, lastRef, expiredResult>>

\* Line 101, then the return through line 181 to _make_request: the print
\* may raise (an encoding or pipe error); otherwise the refresh has succeeded.
PrintSaved(p) ==
    /\ pc[p] = "print"
    /\ \E fail \in BOOLEAN :
          IF fail
          THEN /\ pc' = [pc EXCEPT ![p] = "restore"]
               /\ loc' = [loc EXCEPT ![p].failedAt = "print"]
               /\ UNCHANGED lastRef
          ELSE /\ pc' = [pc EXCEPT ![p] = IF loc[p].phase = "pro" THEN "call" ELSE "retry"]
               /\ loc' = [loc EXCEPT ![p].saved = "ok"]
               /\ lastRef' = [lastRef EXCEPT ![p] = loc[p].new_at]
    /\ UNCHANGED <<procs, now, store, backup, penv, srvValid, issued, subm, mem, ex, expiredResult>>

\* Lines 103-112: the except clause restores the .env from the backup, when
\* there is one, and re-raises.
Restore(p) ==
    /\ pc[p] = "restore"
    /\ store' = IF backup.exists THEN backup ELSE store
    /\ loc' = [loc EXCEPT ![p].saved = "failed"]
    /\ pc' = [pc EXCEPT ![p] = RaisedPc(p)]
    /\ ex' = [ex EXCEPT ![p] = RaisedEx(p, "PersistFailure")]
    /\ UNCHANGED <<procs, now, backup, penv, srvValid, issued, subm, mem, lastRef, expiredResult>>

----------------------------------------------------------------------------
(* exchange_code_for_tokens (lines 501-544), run by "python freshbooks.py AUTH_CODE" *)

\* The responses of the authorization server to an authorization code: a new
\* pair, a body without refresh token, or the refusal of the code.
ExchangeResponses ==
    LET n == issued + 1
        refused == { Resp(400, TRUE, "invalid_grant", NoTok, NoTok, NoTok) }
    IN  IF issued <= MaxIssue
        THEN { Resp(200, TRUE, "none", n, n, e) : e \in ExpiresIns }
             \cup { Resp(200, TRUE, "none", n, NoTok, NoTok) } \cup refused
        ELSE refused

\* Lines 509-533: the POST of the authorization code, raise_for_status, and
\* the values to store.  The process has no client; an exception ends it.
exchange_code_for_tokens(p) ==
    /\ pc[p] = "dead"
    /\ \E r \in ExchangeResponses :
          LET ein == IF r.ein = NoTok THEN DefaultExpiresIn ELSE r.ein
          IN  /\ IF r.at # NoTok
                 THEN issued' = issued + 1 /\ srvValid' = issued + 1
                 ELSE UNCHANGED <<issued, srvValid>>
              /\ IF r.status >= 400
                 THEN /\ loc' = [loc EXCEPT ![p] = [NoLoc EXCEPT !.resp = r]]
                      /\ UNCHANGED pc
                 ELSE /\ loc' = [loc EXCEPT ![p] = [NoLoc EXCEPT !.new_at = r.at, !.new_rt = r.rt,
                                                                !.ein = ein, !.expires_at = now + ein,
                                                                !.pre = store, !.resp = r]]
                      /\ pc' = [pc EXCEPT ![p] = "xw1"]
    /\ UNCHANGED <<procs, now, store, backup, penv, subm, mem, ex, lastRef, expiredResult>>

\* One set_key of lines 535-537, called directly: it writes the key, or
\* raises (always for a value None) and the exception ends the process.
ExchangeWrite(p, at, key, value, isNone, next) ==
    /\ pc[p] = at
    /\ \E fail \in {isNone, TRUE} :
          IF fail
          THEN /\ pc' = [pc EXCEPT ![p] = "dead"]
               /\ loc' = [loc EXCEPT ![p].failedAt = at]
               /\ UNCHANGED store
          ELSE /\ store' = set_key(store, key, value)
               /\ pc' = [pc EXCEPT ![p] = next]
               /\ UNCHANGED loc
    /\ UNCHANGED <<procs, now, backup, penv, srvValid, issued, subm, mem, ex, lastRef, expiredResult>>

\* Line 535
ExchangeSetAccessToken(p) ==
    ExchangeWrite(p, "xw1", "at", loc[p].new_at, loc[p].new_at = NoTok, "xw2")

\* Line 536
ExchangeSetRefreshToken(p) ==
    ExchangeWrite(p, "xw2", "rt", loc[p].new_rt, loc[p].new_rt = NoTok, "xw3")

\* Lines 537-544: the last key; the prints end the process.
ExchangeSetExpiresAt(p) ==
    ExchangeWrite(p, "xw3", "exp", Str(loc[p].expires_at), FALSE, "dead")

----------------------------------------------------------------------------
(* The environment *)

\* Time passes.
Tick ==
    /\ now < MaxNow * TimeStep
    /\ now' = now + TimeStep
    /\ UNCHANGED <<procs, store, backup, penv, srvValid, issued, subm, pc, mem, loc, ex, lastRef, expiredResult>>

\* The process is killed while it runs a request: its memory is gone.  (loc
\* keeps what the interrupted atomic_save_tokens call was writing.)
Crash(p) ==
    /\ pc[p] \notin {"idle", "dead", "off"}
    /\ pc' = [pc EXCEPT ![p] = "dead"]
    /\ ex' = [ex EXCEPT ![p] = [NoEx EXCEPT !.outcome = "crashed"]]
    /\ mem' = [mem EXCEPT ![p] = NoMem]
    /\ loc' = [loc EXCEPT ![p].phase = "none", ![p].failedAt = "none", ![p].ein = 0,
                          ![p].resp = NoResp]
    /\ lastRef' = [lastRef EXCEPT ![p] = NoTok]
    /\ subm' = [t \in DOMAIN subm |-> subm[t] \ {p}]
    /\ UNCHANGED <<procs, now, store, backup, penv, srvValid, issued, expiredResult>>

\* A new process constructs its client: __init__ (lines 33-60) loads the
\* credential from the environment and raises when there is no access token.
ClientInit(p) ==
    /\ pc[p] = "dead"
    /\ IF getenv("at") = NoTok
       THEN UNCHANGED <<pc, mem, loc, ex, lastRef>>
       ELSE /\ mem' = [mem EXCEPT ![p] = LoadedMem]
            /\ pc' = [pc EXCEPT ![p] = "idle"]
            /\ loc' = [loc EXCEPT ![p] = NoLoc]
            /\ ex' = [ex EXCEPT ![p] = NoEx]
            /\ lastRef' = [lastRef EXCEPT ![p] = NoTok]
    /\ UNCHANGED <<procs, now, store, backup, penv, srvValid, issued, subm, expiredResult>>

----------------------------------------------------------------------------
(* Specifications *)

Next ==
    \/ \E p \in procs, r \in Requests : BeginRequest(p, r)
    \/ \E p \in procs, approved \in BOOLEAN : send_invoice(p, approved)
    \/ \E p \in procs, approved \in BOOLEAN : send_invoice_function(p, approved)
    \/ \E p \in procs : SendRequest(p)
    \/ \E p \in procs : RetryRequest(p)
    \/ \E p \in procs : RefreshStart(p)
    \/ \E p \in procs : RefreshPost(p)
    \/ \E p \in procs : SaveBackup(p)
    \/ \E p \in procs : SetAccessToken(p)
    \/ \E p \in procs : SetRefreshToken(p)
    \/ \E p \in procs : SetExpiresAt(p)
    \/ \E p \in procs : UpdateInstance(p)
    \/ \E p \in procs : RemoveBackup(p)
    \/ \E p \in procs : PrintSaved(p)
    \/ \E p \in procs : Restore(p)
    \/ \E p \in procs : Crash(p)
    \/ \E p \in procs : ClientInit(p)
    \/ Tick

\* One client process.
Spec == Init /\ [][Next]_vars

\* One client process that lists invoices; the clock stands still and the
\* process is not killed.
InitInvoices ==
    /\ InitCommon({1})
    /\ store = File(FirstTok, FirstTok, Str(Margin))

NextInvoices ==
    \/ \E p \in procs, status \in StatusArgs : get_invoices(p, status)
    \/ \E p \in procs : SendRequest(p)
    \/ \E p \in procs : RetryRequest(p)
    \/ \E p \in procs : RefreshStart(p)
    \/ \E p \in procs : RefreshPost(p)
    \/ \E p \in procs : SaveBackup(p)
    \/ \E p \in procs : SetAccessToken(p)
    \/ \E p \in procs : SetRefreshToken(p)
    \/ \E p \in procs : SetExpiresAt(p)
    \/ \E p \in procs : UpdateInstance(p)
    \/ \E p \in procs : RemoveBackup(p)
    \/ \E p \in procs : PrintSaved(p)
    \/ \E p \in procs : Restore(p)

SpecInvoices == InitInvoices /\ [][NextInvoices]_vars

\* One process and no credential yet: the authorization code is exchanged
\* for the first credential, then clients are constructed and used.
InitAuth ==
    /\ procs = {1}
    /\ now = 0
    /\ store = Absent
    /\ backup = Absent
    /\ penv = [at |-> NoTok, rt |-> NoTok, exp |-> NoneExp]
    /\ srvValid = NoTok
    /\ issued = 0
    /\ subm = [t \in Tokens \cup {NoTok} |-> {}]
    /\ pc = [p \in AllProcs |-> IF p = 1 THEN "dead" ELSE "off"]
    /\ mem = [p \in AllProcs |-> NoMem]
    /\ loc = [p \in AllProcs |-> NoLoc]
    /\ ex = [p \in AllProcs |-> NoEx]
    /\ lastRef = [p \in AllProcs |-> NoTok]
    /\ expiredResult = FALSE

NextAuth ==
    \/ \E p \in procs : exchange_code_for_tokens(p)
    \/ \E p \in procs : ExchangeSetAccessToken(p)
    \/ \E p \in procs : ExchangeSetRefreshToken(p)
    \/ \E p \in procs : ExchangeSetExpiresAt(p)
    \/ \E p \in procs : ClientInit(p)
    \/ \E p \in procs, r \in Requests : BeginRequest(p, r)
    \/ \E p \in procs : SendRequest(p)
    \/ \E p \in procs : RetryRequest(p)
    \/ \E p \in procs : RefreshStart(p)
    \/ \E p \in procs : RefreshPost(p)
    \/ \E p \in procs : SaveBackup(p)
    \/ \E p \in procs : SetAccessToken(p)
    \/ \E p \in procs : SetRefreshToken(p)
    \/ \E p \in procs : SetExpiresAt(p)
    \/ \E p \in procs : UpdateInstance(p)
    \/ \E p \in procs : RemoveBackup(p)
    \/ \E p \in procs : PrintSaved(p)
    \/ \E p \in procs : Restore(p)
    \/ \E p \in procs : Crash(p)
    \/ Tick

SpecAuth == InitAuth /\ [][NextAuth]_vars

\* The steps of a running _make_request call of process p.
Progress(p) ==
    \/ SendRequest(p)
    \/ RetryRequest(p)
    \/ RefreshStart(p)
    \/ RefreshPost(p)
    \/ SaveBackup(p)
    \/ SetAccessToken(p)
    \/ SetRefreshToken(p)
    \/ SetExpiresAt(p)
    \/ UpdateInstance(p)
    \/ RemoveBackup(p)
    \/ PrintSaved(p)
    \/ Restore(p)

\* One client process whose running call goes on: the interpreter executes the
\* next statement and every HTTP call returns.  The clock stands still.
NextLive ==
    \/ \E p \in procs, r \in Requests : BeginRequest(p, r)
    \/ \E p \in procs, approved \in BOOLEAN : send_invoice(p, approved)
    \/ \E p \in procs, approved \in BOOLEAN : send_invoice_function(p, approved)
    \/ \E p \in procs : Progress(p)
    \/ \E p \in procs : Crash(p)
    \/ \E p \in procs : ClientInit(p)

SpecLive == Init /\ [][NextLive]_vars /\ \A p \in AllProcs : WF_vars(Progress(p))

\* One client process whose credential is in the .env file, with no failing
\* step in atomic_save_tokens and no kill, against an authorization server
\* that answers a refresh with an error or with a new pair.
InitClean ==
    /\ InitCommon({1})
    /\ store.exists /\ store.rt = FirstTok

NoFault(p) == pc'[p] # "restore"

\* The answer carries the whole new pair, or no token (and nothing was rotated).
Rotated(r) == (r.at = NoTok) = (r.rt = NoTok)

NextClean ==
    \/ \E p \in procs, r \in Requests : BeginRequest(p, r)
    \/ \E p \in procs, approved \in BOOLEAN : send_invoice(p, approved)
    \/ \E p \in procs : SendRequest(p)
    \/ \E p \in procs : RetryRequest(p)
    \/ \E p \in procs : RefreshStart(p)
    \/ \E p \in procs : RefreshPost(p) /\ Rotated(loc'[p].resp)
    \/ \E p \in procs : SaveBackup(p)
    \/ \E p \in procs : SetAccessToken(p) /\ NoFault(p)
    \/ \E p \in procs : SetRefreshToken(p) /\ NoFault(p)
    \/ \E p \in procs : SetExpiresAt(p) /\ NoFault(p)
    \/ \E p \in procs : UpdateInstance(p)
    \/ \E p \in procs : RemoveBackup(p) /\ NoFault(p)
    \/ \E p \in procs : PrintSaved(p) /\ NoFault(p)
    \/ Tick

SpecClean == InitClean /\ [][NextClean]_vars

\* Two client processes on one store.  The first is running; the second is
\* constructed at any moment.  The clock stands still and no process is killed.
InitMulti ==
    /\ procs = AllProcs
    /\ now = 0
    /\ backup = Absent
    /\ srvValid = FirstTok
    /\ issued = 1
    /\ subm = [t \in Tokens \cup {NoTok} |-> {}]
    /\ store = File(FirstTok, FirstTok, Str(Margin))
    /\ penv = [at |-> NoTok, rt |-> NoTok, exp |-> NoneExp]
    /\ mem = [p \in AllProcs |-> [at |-> FirstTok, rt |-> FirstTok, exp |-> Str(Margin), hdr |-> FirstTok]]
    /\ pc = [p \in AllProcs |-> IF p = 1 THEN "idle" ELSE "dead"]
    /\ loc = [p \in AllProcs |-> NoLoc]
    /\ ex = [p \in AllProcs |-> NoEx]
    /\ lastRef = [p \in AllProcs |-> NoTok]
    /\ expiredResult = FALSE

NextMulti ==
    \/ \E p \in procs : BeginRequest(p, GetInvoiceRequest)
    \/ \E p \in procs : SendRequest(p)
    \/ \E p \in procs : RetryRequest(p)
    \/ \E p \in procs : RefreshStart(p)
    \/ \E p \in procs : RefreshPost(p)
    \/ \E p \in procs : SaveBackup(p)
    \/ \E p \in procs : SetAccessToken(p)
    \/ \E p \in procs : SetRefreshToken(p)
    \/ \E p \in procs : SetExpiresAt(p)
    \/ \E p \in procs : UpdateInstance(p)
    \/ \E p \in procs : RemoveBackup(p)
    \/ \E p \in procs : PrintSaved(p)
    \/ \E p \in procs : Restore(p)
    \/ \E p \in procs : ClientInit(p)

SpecMulti == InitMulti /\ [][NextMulti]_vars

\* is_token_expired called on its own, on every kind of token_expires_at and
\* at every time around the margin.
ExpiryInputs ==
    {NoneExp, EmptyExp, BadExp} \cup {Str(e) : e \in 0..(Margin + 2 * MaxClock)}

CheckExpiry(p) ==
    /\ pc[p] = "expiry"
    /\ expiredResult' = is_token_expired(mem[p].exp, now)
    /\ pc' = [pc EXCEPT ![p] = "checked"]
    /\ UNCHANGED <<procs, now, store, backup, penv, srvValid, issued, subm, mem, loc, ex, lastRef>>

InitExpiry ==
    /\ procs = {1}
    /\ now \in 0..MaxClock
    /\ backup = Absent
    /\ srvValid = FirstTok
    /\ issued = 1
    /\ subm = [t \in Tokens \cup {NoTok} |-> {}]
    /\ \E e \in ExpiryInputs :
          /\ store = File(FirstTok, FirstTok, e)
          /\ mem = [p \in AllProcs |-> [at |-> FirstTok, rt |-> FirstTok, exp |-> e, hdr |-> FirstTok]]
    /\ penv = [at |-> NoTok, rt |-> NoTok, exp |-> NoneExp]
    /\ pc = [p \in AllProcs |-> IF p = 1 THEN "expiry" ELSE "off"]
    /\ loc = [p \in AllProcs |-> NoLoc]
    /\ ex = [p \in AllProcs |-> NoEx]
    /\ lastRef = [p \in AllProcs |-> NoTok]
    /\ expiredResult = FALSE

NextExpiry == \E p \in procs : CheckExpiry(p)

SpecExpiry == InitExpiry /\ [][NextExpiry]_vars

----------------------------------------------------------------------------
(* Properties *)

\* The three token keys of a store file; a file that does not exist has none.
TokenKeys(f) == IF f.exists THEN <<f.at, f.rt, f.exp>> ELSE <<NoTok, NoTok, NoneExp>>

\* The three values the running atomic_save_tokens call of p writes.
NewKeys(p) == <<loc[p].new_at, loc[p].new_rt, Str(loc[p].expires_at)>>

\* C1: after a call of atomic_save_tokens in which a step of the guarded
\* sequence failed, the store's content equals its content before the call
\* (and the error has been raised to the caller).
C1_FailedPersistRollsBack ==
    \A p \in procs : loc[p].saved = "failed" => store = loc[p].pre

\* C2: when the process is killed at any point during atomic_save_tokens, the
\* store holds either all three pre-call values or all three new values.
C2_CrashAtomic ==
    \A p \in procs :
        (pc[p] = "dead" /\ loc[p].saved = "running")
            => (TokenKeys(store) = TokenKeys(loc[p].pre) \/ TokenKeys(store) = NewKeys(p))

\* C3: during and after every atomic_save_tokens call, successful or failed,
\* when the in-memory credential is the new pair the store holds the new pair.
C3_MemoryOnlyAfterStore ==
    \A p \in procs :
        (loc[p].saved # "no" /\ mem[p].at = loc[p].new_at /\ mem[p].rt = loc[p].new_rt)
            => (store.exists /\ store.at = loc[p].new_at /\ store.rt = loc[p].new_rt)

\* C4: with two processes on one store, no process loads or submits a refresh
\* token that the other process has already submitted.
C4_NoReuseAcrossProcesses ==
    [][\A p \in procs :
          /\ (pc[p] = "post" /\ pc'[p] # "post") => subm[mem[p].rt] \subseteq {p}
          /\ (pc[p] = "dead" /\ pc'[p] = "idle") => subm[mem'[p].rt] \subseteq {p}]_vars

\* The positions of p inside refresh_access_token and atomic_save_tokens.
RefreshPcs == {"refresh", "post", "save", "w1", "w2", "w3", "mem", "rm", "print", "restore"}

\* C5: when the first response is 401 and the refresh that follows succeeds,
\* one refresh and one retry occur after the 401; the retry repeats the
\* request with the new access token, and its outcome is the outcome of the
\* whole call.
C5_OneRefreshOneRetry ==
    \A p \in procs :
        LET c == ex[p].calls
        IN  /\ pc[p] = "retry"
                => /\ Len(c) = 1 /\ c[1].status = 401
                   /\ ex[p].nPost = 1
                   /\ mem[p].hdr = loc[p].new_at
            /\ Len(c) = 2
                => /\ c[1].status = 401
                   /\ ex[p].nPost = 1
                   /\ c[2].req = c[1].req /\ c[2].req = ex[p].req
                   /\ c[2].hdr = loc[p].new_at /\ c[2].hdr # c[1].hdr
                   /\ ex[p].outcome = IF c[2].status \in 400..599 THEN "http_error" ELSE "ok"
            /\ Len(c) <= 2
            /\ (pc[p] = "idle" /\ Len(c) = 1 /\ c[1].status = 401)
                => ex[p].outcome = "refresh_error"

C5_Witness ==
    \E p \in procs :
        /\ Len(ex[p].calls) = 2 /\ ex[p].calls[2].status = 200
        /\ ex[p].outcome = "ok" /\ pc[p] = "idle"

\* C6: when the refresh that follows a 401 fails, for whatever reason, the
\* failure is raised to the caller of _make_request and no retry is issued.
C6_ReactiveFailurePropagates ==
    \A p \in procs :
        /\ ex[p].err # "none"
              => /\ pc[p] = "idle" /\ ex[p].outcome = "refresh_error"
                 /\ Len(ex[p].calls) = 1 /\ ex[p].calls[1].status = 401
        /\ (pc[p] = "retry" \/ Len(ex[p].calls) = 2)
              => (ex[p].err = "none" /\ loc[p].saved = "ok")

C6_Witness ==
    \E p \in procs : ex[p].err = "PersistFailure" /\ ex[p].outcome = "refresh_error" /\ pc[p] = "idle"

\* C7: when the proactive refresh fails, _make_request still issues the API
\* call, with the access token held before the refresh attempt.
C7_ProactiveFailureKeepsToken ==
    \A p \in procs :
        (ex[p].preErr # "none" /\ pc[p] # "dead")
            => /\ pc[p] = "call" \/ Len(ex[p].calls) >= 1
               /\ Len(ex[p].calls) >= 1 => ex[p].calls[1].hdr = ex[p].hdr0

\* C8: a credential that is expired at entry gets exactly one refresh attempt,
\* finished before the first API call; one that is not expired gets none.
C8_OneProactiveRefresh ==
    \A p \in procs :
        /\ ex[p].nPre <= 1
        /\ (pc[p] = "call" \/ Len(ex[p].calls) >= 1)
              => ex[p].nPre = (IF ex[p].expired THEN 1 ELSE 0)
        /\ (loc[p].phase = "pro" /\ pc[p] \in RefreshPcs) => Len(ex[p].calls) = 0

C8_Witness ==
    \E p \in procs :
        /\ ex[p].expired /\ ex[p].nPre = 1 /\ ex[p].preErr = "HTTPError"
        /\ Len(ex[p].calls) = 1
        /\ mem[p].exp.kind = "num" /\ now > mem[p].exp.val

\* C9: after a successful refresh the in-memory access token and the
\* Authorization header are the new access token, and the next API call
\* carries it.
C9_NewTokenUsed ==
    \A p \in procs :
        /\ lastRef[p] # NoTok => (mem[p].at = lastRef[p] /\ mem[p].hdr = lastRef[p])
        /\ \A i \in 1..Len(ex[p].calls) :
              ex[p].calls[i].ref # NoTok => ex[p].calls[i].hdr = ex[p].calls[i].ref

C9_Witness ==
    \E p \in procs :
        /\ Len(ex[p].calls) = 1 /\ ex[p].nPre = 0
        /\ ex[p].calls[1].ref # NoTok /\ ex[p].calls[1].hdr = ex[p].calls[1].ref

\* C10 as stated: is_token_expired is true when token_expires_at is absent or
\* malformed, or when the current time is within 300 seconds of it, the
\* instant exactly 300 seconds before expiry included; false otherwise.
C10_ExpiredWithinMarginInclusive ==
    \A p \in procs :
        pc[p] = "checked"
            => expiredResult = (\/ mem[p].exp.kind \in {"none", "empty", "bad"}
                                \/ mem[p].exp.kind = "num" /\ now >= mem[p].exp.val - 300)

\* C10 as amended: is_token_expired is true when token_expires_at is absent
\* or malformed, or when fewer than 300 seconds remain until it; at exactly
\* 300 seconds before expiry, and earlier, it is false.
C10_ExpiredWithinMarginStrict ==
    \A p \in procs :
        pc[p] = "checked"
            => expiredResult = (\/ mem[p].exp.kind \in {"none", "empty", "bad"}
                                \/ mem[p].exp.kind = "num" /\ now > mem[p].exp.val - 300)

C10_Witness ==
    \E p \in procs :
        /\ pc[p] = "checked" /\ mem[p].exp.kind = "num"
        /\ now = mem[p].exp.val - 300 /\ expiredResult = FALSE

\* C11: refresh_access_token called while no refresh token is held raises the
\* no-refresh-token error, makes no call to the authorization endpoint, and
\* changes neither the store nor the in-memory credential.
C11_NoRefreshTokenNoCall ==
    [][\A p \in procs :
          (pc[p] = "refresh" /\ mem[p].rt = NoTok /\ pc'[p] \notin {"refresh", "dead"})
              => /\ pc'[p] \in {"call", "idle"}
                 /\ (IF loc[p].phase = "pro" THEN ex'[p].preErr ELSE ex'[p].err) = "NoRefreshToken"
                 /\ subm' = subm /\ srvValid' = srvValid /\ issued' = issued
                 /\ store' = store /\ backup' = backup /\ mem' = mem]_vars

C11_Witness ==
    \E p \in procs :
        /\ ex[p].err = "NoRefreshToken" /\ mem[p].rt = NoTok
        /\ \A t \in DOMAIN subm : subm[t] = {}

\* The step on which process p receives the authorization server's response
\* to its POST (line 151) and refresh_access_token handles it (lines 153-179).
Answered(p) == pc[p] = "post" /\ pc'[p] \notin {"post", "dead"}

\* The error the refresh of process p has raised: the proactive refresh's is
\* swallowed by _make_request, the 401-triggered one's is re-raised.
RefreshError(p) == IF loc[p].phase = "pro" THEN ex[p].preErr ELSE ex[p].err

\* C12: when the authorization server answers a refresh with the error
\* invalid_grant, refresh_access_token raises the refresh-token-invalid error
\* and the store is unchanged.
C12_InvalidGrantRaises ==
    [][\A p \in procs :
          (Answered(p) /\ loc'[p].resp.error = "invalid_grant")
              => /\ RefreshError(p)' = "RefreshTokenInvalid"
                 /\ pc'[p] = RaisedPc(p)
                 /\ store' = store /\ backup' = backup /\ mem' = mem]_vars

C12_Witness ==
    \E p \in procs :
        /\ pc[p] = "idle" /\ loc[p].resp.error = "invalid_grant"
        /\ ex[p].err = "RefreshTokenInvalid" /\ ex[p].outcome = "refresh_error"

\* C13: for every response to a refresh whose status is not 200 and that is
\* not invalid_grant, refresh_access_token raises an error of the
\* authorization server and atomic_save_tokens is not called (so the store is
\* unchanged).
C13_NonSuccessRaises ==
    [][\A p \in procs :
          (Answered(p) /\ loc'[p].resp.status # 200 /\ loc'[p].resp.error # "invalid_grant")
              => /\ RefreshError(p)' \in {"HTTPError", "JSONDecodeError"}
                 /\ pc'[p] # "save"
                 /\ store' = store]_vars

\* C14: when a response with status 200 lacks the access token, the refresh
\* token or both, refresh_access_token raises the malformed-response error,
\* atomic_save_tokens is not called and the store is unchanged.
C14_MissingTokenRaises ==
    [][\A p \in procs :
          (Answered(p) /\ loc'[p].resp.status = 200 /\ loc'[p].resp.json
              /\ (loc'[p].resp.at = NoTok \/ loc'[p].resp.rt = NoTok))
              => /\ RefreshError(p)' = "MalformedTokenResponse"
                 /\ pc'[p] = RaisedPc(p)
                 /\ store' = store /\ backup' = backup /\ mem' = mem]_vars

C14_Witness ==
    \E p \in procs :
        /\ pc[p] = "idle" /\ loc[p].resp.status = 200
        /\ loc[p].resp.at # NoTok /\ loc[p].resp.rt = NoTok
        /\ ex[p].err = "MalformedTokenResponse" /\ ex[p].outcome = "refresh_error"

\* The error statuses of HTTP.
ErrorStatuses == 400..599

\* C15: an error status (4xx, 5xx) other than a 401 of the first call is
\* raised to the caller of _make_request, for the first response and for the
\* response of the retry alike, and starts neither a refresh nor another call.
C15_ErrorStatusSurfaced ==
    \A p \in procs : \A i \in 1..Len(ex[p].calls) :
        (ex[p].calls[i].status \in ErrorStatuses /\ ~(i = 1 /\ ex[p].calls[i].status = 401))
            => /\ i = Len(ex[p].calls)
               /\ pc[p] = "idle"
               /\ ex[p].outcome = "http_error"
               /\ ex[p].nPost = i - 1

C15_Witness ==
    \E p \in procs :
        /\ Len(ex[p].calls) = 2 /\ ex[p].calls[1].status = 401 /\ ex[p].calls[2].status = 404
        /\ ex[p].outcome = "http_error" /\ pc[p] = "idle"

Range(l) == {l[i] : i \in 1..Len(l)}

\* C18: get_invoices sends every status of the list it is given as a status[]
\* value of the query (the set of values sent is the set of statuses passed),
\* and sends no status filter when status is None or empty.
C18_AllStatusesSent ==
    \A p \in procs : \A i \in 1..Len(ex[p].calls) :
        ex[p].op = "get_invoices"
            => DictValues(ex[p].calls[i].req.params, "status[]") = Range(ex[p].arg.list)

\* The positions of p inside atomic_save_tokens.
PersistPcs == {"w1", "w2", "w3", "mem", "rm", "print", "restore"}

\* C16: every write of the token keys in the store is made by
\* atomic_save_tokens: the exchange of the authorization code stores the
\* first credential through it and no other code writes the keys.
C16_WritesOnlyThroughPersist ==
    [][store' # store => \E p \in procs : pc[p] \in PersistPcs]_vars

\* The positions of p inside a _make_request call.
RequestPcs == {"call", "retry"} \cup RefreshPcs

\* The calls and refresh attempts of the running (or last) _make_request call.
RequestBounded ==
    \A p \in procs :
        /\ Len(ex[p].calls) <= 2 /\ ex[p].nPre <= 1 /\ ex[p].nPost <= 1
        /\ (Len(ex[p].calls) = 2 /\ ex[p].calls[2].status = 401)
              => (pc[p] = "idle" /\ ex[p].outcome = "http_error")

\* C19: a _make_request call ends after at most two API calls and at most two
\* refresh attempts (one before the first call, one after a 401); a 401
\* answered to the retry is raised and starts no refresh and no retry.
C19_TerminatesBounded ==
    /\ []RequestBounded
    /\ \A p \in AllProcs : (pc[p] \in RequestPcs) ~> (pc[p] \in {"idle", "dead"})

C19_Witness ==
    \E p \in procs :
        /\ Len(ex[p].calls) = 2 /\ ex[p].calls[2].status = 401
        /\ ex[p].nPre = 1 /\ ex[p].nPost = 1 /\ pc[p] = "idle"

\* Token key i (1: access token, 2: refresh token, 3: expiry) is set in file f.
HasKey(f, i) == TokenKeys(f)[i] # TokenKeys(Absent)[i]

\* C20: the credential is changed only by a refresh that reached
\* atomic_save_tokens with a new pair: the instance fields change only on
\* lines 92-95 (or when the process dies or constructs a client), the store
\* changes only inside atomic_save_tokens, which runs only on a response that
\* refresh_access_token accepted, and no call removes a token key that the
\* store held before it.
C20_OnlySuccessfulRefreshMutates ==
    [][/\ \A p \in procs :
            /\ mem'[p] # mem[p] => (pc[p] \in {"mem", "dead"} \/ pc'[p] = "dead")
            /\ pc'[p] \in PersistPcs \cup {"save"}
                  => /\ RefreshOutcome(loc'[p].resp).err = "none"
                     /\ loc'[p].new_at = loc'[p].resp.at /\ loc'[p].new_rt = loc'[p].resp.rt
       /\ store' # store => \E p \in procs : pc[p] \in {"w1", "w2", "w3", "restore"}
       /\ \A i \in 1..3 :
            HasKey(store, i)
                => \/ HasKey(store', i)
                   \/ \E p \in procs : pc[p] = "restore" /\ ~HasKey(loc[p].pre, i)]_vars

C20_Witness ==
    \E p \in procs :
        /\ pc[p] = "idle" /\ ex[p].outcome = "refresh_error"
        /\ ex[p].preErr = "HTTPError" /\ ex[p].err = "MalformedTokenResponse"
        /\ loc[p].saved = "no" /\ mem[p].hdr = ex[p].hdr0
        /\ store.exists /\ store.at = mem[p].at /\ store.rt = mem[p].rt

\* C21: a client never submits to the authorization server a refresh token
\* that it has submitted before, whatever the answer to the earlier
\* submission was.
C21_NoResubmission ==
    [][\A p \in procs : Answered(p) => p \notin subm[mem[p].rt]]_vars

Finished(p) == loc[p].saved \in {"ok", "failed"} /\ pc[p] \notin PersistPcs \cup {"save"}

\* Once the atomic_save_tokens calls of both processes have finished, the
\* three token keys are the values of one call, or the content from before
\* one call (after a rollback).
OneCallsValues ==
    (\A p \in AllProcs : Finished(p))
        => \E p \in AllProcs : TokenKeys(store) \in {NewKeys(p), TokenKeys(loc[p].pre)}

\* The running atomic_save_tokens call of q has written token key i.
Written(q, i) ==
    pc[q] \in (CASE i = 1 -> {"w2", "w3", "mem", "rm", "print"}
               [] i = 2 -> {"w3", "mem", "rm", "print"}
               [] i = 3 -> {"mem", "rm", "print"})

\* The restore of the except clause (line 107), run by p, leaves in place
\* every value that the call of another process has written.
RollbackKeepsOthers ==
    \A p \in procs : \A q \in procs \ {p} : \A i \in 1..3 :
        (pc[p] = "restore" /\ pc'[p] # "restore"
            /\ Written(q, i) /\ TokenKeys(store)[i] = NewKeys(q)[i])
            => TokenKeys(store')[i] = NewKeys(q)[i]

\* C23: in every interleaving of two processes that run atomic_save_tokens
\* on the same .env and .env.backup, once both calls have finished the three
\* token keys come from one call, and the rollback of one process does not
\* overwrite values the other process has written.
C23_NoMixNoLostWrite == []OneCallsValues /\ [][RollbackKeepsOthers]_vars

\* C24: after atomic_save_tokens has returned normally there is no backup
\* file, and while the keys are being written the backup, when there is one,
\* is the content the .env had when the call began (there is one whenever the
\* .env existed then).
C24_BackupPreCallThenGone ==
    \A p \in procs :
        /\ loc[p].saved = "ok" => ~backup.exists
        /\ pc[p] \in {"w1", "w2", "w3"}
              => IF loc[p].pre.exists THEN backup = loc[p].pre ELSE ~backup.exists

C24_Witness ==
    \E p \in procs :
        /\ loc[p].saved = "ok" /\ loc[p].pre.exists /\ ~backup.exists
        /\ TokenKeys(store) = NewKeys(p) /\ store # loc[p].pre

====
